---- MODULE Spec2Model ----
(***************************************************************************)
(* Model of src/hooks/useGolfData.ts of Caddie-AI:                         *)
(*   - the GolfDataProvider store (useLocalStorage, addCourse, saveRound,  *)
(*     addCourseNote, addPlayerTendency),                                  *)
(*   - buildSystemPrompt (history summary, notes line, tendencies line),   *)
(*   - getJpConversationalResponse (the conversation bridge).              *)
(***************************************************************************)
EXTENDS Integers, Sequences, FiniteSets, TLC

VARIABLES
    \* ---- GolfDataProvider -------------------------------------------------
    storedValue,    \* useLocalStorage: the storedValue the latest render closed over
    heldValues,     \* storedValues of earlier renders whose handlers callers still hold
    renders,        \* number of re-renders of the provider so far
    reactState,     \* useState: the value last passed to setStoredValue (next render's value)
    localStorage,   \* window.localStorage['golfData']
    lastSetItem,    \* outcome of the last localStorage.setItem: "none" | "ok" | "threw"
    writeFailures,  \* number of setItem calls that threw so far
    \* ---- buildSystemPrompt as a pure function ------------------------------
    promptIn,       \* the (course, currentHole, round, playerProfile) arguments
    promptOut,      \* the result of buildSystemPrompt on promptIn
    \* ---- getJpConversationalResponse ---------------------------------------
    API_KEY,        \* process.env.API_KEY as seen at module load
    ai,             \* the module-level client: "null" or "client"
    pc,             \* position of the async call: "idle" | "awaiting" | "done"
    call,           \* arguments of the call in progress / last call
    sent,           \* the request handed to ai.models.generateContent
    response,       \* how the backend settled the request
    requests,       \* number of backend requests issued so far
    result          \* how the promise settled and with which value

storeVars  == <<storedValue, heldValues, renders, reactState, localStorage, lastSetItem,
               writeFailures>>
promptVars == <<promptIn, promptOut>>
bridgeVars == <<API_KEY, ai, pc, call, sent, response, requests, result>>
vars       == <<storeVars, promptVars, bridgeVars>>

-----------------------------------------------------------------------------
(* Bounds of the model *)
MaxCourses == 2     \* courses held by the store
MaxNotes   == 2     \* notes on one hole in the store
MaxRounds  == 3     \* rounds in a roundHistory handed to buildSystemPrompt
MaxPerf    == 2     \* HolePerformance entries in one round's holeByHole
MaxConv    == 2     \* messages in a round transcript
MaxCalls   == 2     \* backend requests issued in one run
MaxWriteFailures == 1   \* localStorage.setItem calls that throw in one run
MaxHeld    == 1     \* earlier renders whose handlers are still held by callers
MaxRenders == 2     \* re-renders of the provider in one run

-----------------------------------------------------------------------------
(* Generic helpers *)

\* All sequences over S of length 0..n
SeqsUpTo(S, n) == UNION {[1..k -> S] : k \in 0..n}

\* Array.prototype.includes
Includes(s, x) == \E i \in 1..Len(s) : s[i] = x

-----------------------------------------------------------------------------
(* Data of the store *)

CourseIds  == {"c1", "c2"}
NoteTexts  == {"n1"}
Tendencies == {"t1", "t2"}
HoleNumbers == {1, 2}

\* A Round as the store sees it; saveRound only reads .date
StoreRound(d, c) ==
    [date |-> d, conditions |-> c, conversation |-> <<>>, holeByHole |-> <<>>]

StoreRounds ==
    {StoreRound("d1", "sunny"), StoreRound("d1", "rain"), StoreRound("d2", "sunny")}

\* A Hole; hasNotes = FALSE is an absent (undefined) notes field
NewHole(n, hasNotes) ==
    [holeNumber |-> n, par |-> 4, yardage |-> 380, hasNotes |-> hasNotes, notes |-> <<>>]

\* The courses a caller hands to addCourse: one hole, no history
NewCourse(c, h) ==
    [id |-> c, name |-> "Pinehurst", holes |-> <<NewHole(1, h)>>, roundHistory |-> <<>>]

NewCourses == {NewCourse("c1", FALSE), NewCourse("c2", TRUE)}

\* useLocalStorage's initialValue
initialValue ==
    [courses |-> <<>>, playerProfile |-> [present |-> TRUE, tendencies |-> <<>>]]

\* Documents a previous session may have left in the store
StartDocs ==
    { [courses |-> <<[id |-> "c1", name |-> "Pinehurst", holes |-> <<NewHole(1, FALSE)>>,
                      roundHistory |-> <<>>]>>,
       playerProfile |-> [present |-> FALSE, tendencies |-> <<>>]],
      [courses |-> <<[id |-> "c1", name |-> "Pinehurst", holes |-> <<NewHole(1, FALSE)>>,
                      roundHistory |-> <<[date |-> "d1", conditions |-> "sunny",
                                          conversation |-> <<>>, holeByHole |-> <<>>]>>]>>,
       playerProfile |-> [present |-> TRUE, tendencies |-> <<"t1">>]] }

NoItem      == [kind |-> "none",    doc |-> initialValue]
CorruptItem == [kind |-> "corrupt", doc |-> initialValue]
DocItem(d)  == [kind |-> "doc",     doc |-> d]

\* useState initialiser: getItem + JSON.parse, initialValue when absent or unparsable
loadStoredValue(item) ==
    IF item.kind = "doc" THEN item.doc ELSE initialValue

-----------------------------------------------------------------------------
(* The updater functions handed to setGolfData *)

addCourseUpdate(prevData, course) ==
    [prevData EXCEPT !.courses = Append(prevData.courses, course)]

\* Array.prototype.findIndex on r.date; 0 stands for JavaScript's -1
findIndex(history, date) ==
    IF \E i \in 1..Len(history) : history[i].date = date
    THEN CHOOSE i \in 1..Len(history) :
            /\ history[i].date = date
            /\ \A j \in 1..(i-1) : history[j].date # date
    ELSE 0

upsertRound(history, round) ==
    LET roundIndex == findIndex(history, round.date) IN
    IF roundIndex > 0
    THEN [history EXCEPT ![roundIndex] = round]
    ELSE Append(history, round)

saveRoundUpdate(prevData, courseId, round) ==
    LET upd(course) ==
            IF course.id = courseId
            THEN [course EXCEPT !.roundHistory = upsertRound(course.roundHistory, round)]
            ELSE course
    IN [prevData EXCEPT !.courses = [i \in 1..Len(prevData.courses) |-> upd(prevData.courses[i])]]

addCourseNoteUpdate(prevData, courseId, holeNumber, note) ==
    LET updHole(hole) ==
            IF hole.holeNumber = holeNumber
            THEN [hole EXCEPT !.hasNotes = TRUE,
                              !.notes = Append(IF hole.hasNotes THEN hole.notes ELSE <<>>, note)]
            ELSE hole
        upd(course) ==
            IF course.id = courseId
            THEN [course EXCEPT !.holes = [j \in 1..Len(course.holes) |-> updHole(course.holes[j])]]
            ELSE course
    IN [prevData EXCEPT !.courses = [i \in 1..Len(prevData.courses) |-> upd(prevData.courses[i])]]

addPlayerTendencyUpdate(prevData, tendency) ==
    LET profile == IF prevData.playerProfile.present
                   THEN prevData.playerProfile
                   ELSE [present |-> TRUE, tendencies |-> <<>>]
    IN IF Includes(profile.tendencies, tendency)
       THEN prevData
       ELSE [prevData EXCEPT !.playerProfile =
                [present |-> TRUE, tendencies |-> Append(profile.tendencies, tendency)]]

-----------------------------------------------------------------------------
(* useLocalStorage.setValue. Every render of the provider creates its own
   handlers, and a handler applies the updater to the storedValue of the render
   that created it (`closure`): the latest render's, or that of an earlier render
   when the caller captured the handler before the re-render (a callback that
   runs after an await). setStoredValue runs before setItem, and a throwing
   setItem is caught and logged. *)
setValue(valueToStore, writeOk) ==
    /\ writeOk \/ writeFailures < MaxWriteFailures
    /\ writeFailures' = IF writeOk THEN writeFailures ELSE writeFailures + 1
    /\ reactState' = valueToStore
    /\ localStorage' = IF writeOk THEN DocItem(valueToStore) ELSE localStorage
    /\ lastSetItem' = IF writeOk THEN "ok" ELSE "threw"
    /\ UNCHANGED <<storedValue, heldValues, renders>>

\* The storedValues of the handlers a caller can invoke
Closures == {storedValue} \cup heldValues

addCourse(closure, course, writeOk) ==
    /\ closure \in Closures
    /\ Len(closure.courses) < MaxCourses
    /\ setValue(addCourseUpdate(closure, course), writeOk)
    /\ UNCHANGED <<promptVars, bridgeVars>>

saveRound(closure, courseId, round, writeOk) ==
    /\ closure \in Closures
    /\ setValue(saveRoundUpdate(closure, courseId, round), writeOk)
    /\ UNCHANGED <<promptVars, bridgeVars>>

NotesRoom(data, courseId, holeNumber) ==
    \A i \in 1..Len(data.courses) :
        data.courses[i].id = courseId =>
            \A j \in 1..Len(data.courses[i].holes) :
                data.courses[i].holes[j].holeNumber = holeNumber =>
                    Len(data.courses[i].holes[j].notes) < MaxNotes

addCourseNote(closure, courseId, holeNumber, note, writeOk) ==
    /\ closure \in Closures
    /\ NotesRoom(closure, courseId, holeNumber)
    /\ setValue(addCourseNoteUpdate(closure, courseId, holeNumber, note), writeOk)
    /\ UNCHANGED <<promptVars, bridgeVars>>

addPlayerTendency(closure, tendency, writeOk) ==
    /\ closure \in Closures
    /\ setValue(addPlayerTendencyUpdate(closure, tendency), writeOk)
    /\ UNCHANGED <<promptVars, bridgeVars>>

\* React re-renders the provider: new handlers close over the new state; the
\* handlers of earlier renders stay callable for as long as a caller holds them
Render(kept) ==
    /\ storedValue # reactState
    /\ renders < MaxRenders
    /\ renders' = renders + 1
    /\ kept \subseteq heldValues \cup {storedValue}
    /\ Cardinality(kept) <= MaxHeld
    /\ storedValue' = reactState
    /\ heldValues' = kept
    /\ UNCHANGED <<reactState, localStorage, lastSetItem, writeFailures,
                   promptVars, bridgeVars>>

-----------------------------------------------------------------------------
(* buildSystemPrompt *)

\* A HolePerformance
Perf(h, s) == [holeNumber |-> h, score |-> s]

Perfs == {Perf(1, 3), Perf(1, 5), Perf(2, 4)}

DateOf(i) == "d" \o ToString(i)

\* A round of a course's history: only holeByHole is read by buildSystemPrompt
HistRound(i, hbh) ==
    [date |-> DateOf(i), conditions |-> "sunny", conversation |-> <<>>, holeByHole |-> hbh]

MkHistory(hbhs) == [i \in 1..Len(hbhs) |-> HistRound(i, hbhs[i])]

\* A Course argument; hasRoundHistory = FALSE is an object without that field
MkCourse(hasRoundHistory, history) ==
    [id |-> "c1", name |-> "Pinehurst", holes |-> <<>>,
     hasRoundHistory |-> hasRoundHistory, roundHistory |-> history]

MkHole(n, hasNotes, notes) ==
    [holeNumber |-> n, par |-> 4, yardage |-> 380, hasNotes |-> hasNotes, notes |-> notes]

\* A Round argument; hasConversation = FALSE is an object without that field
MkRound(hasConversation, conversation) ==
    [date |-> "d9", conditions |-> "sunny", hasConversation |-> hasConversation,
     conversation |-> conversation, holeByHole |-> <<>>]

MkProfile(tendencies) == [tendencies |-> tendencies]

\* Array.prototype.find: the first element with that hole number (0: undefined)
find(holeByHole, holeNumber) ==
    IF \E i \in 1..Len(holeByHole) : holeByHole[i].holeNumber = holeNumber
    THEN CHOOSE i \in 1..Len(holeByHole) :
            /\ holeByHole[i].holeNumber = holeNumber
            /\ \A j \in 1..(i-1) : holeByHole[j].holeNumber # holeNumber
    ELSE 0

\* roundHistory.map(r => r.holeByHole.find(...)).filter(h => !!h)
RECURSIVE relevantHistory(_, _)
relevantHistory(roundHistory, holeNumber) ==
    IF roundHistory = <<>> THEN <<>>
    ELSE LET r == Head(roundHistory)
             k == find(r.holeByHole, holeNumber)
             rest == relevantHistory(Tail(roundHistory), holeNumber)
         IN IF k > 0 THEN <<r.holeByHole[k]>> \o rest ELSE rest

\* reduce((acc, h) => acc + h.score, 0)
RECURSIVE sumScores(_)
sumScores(perfs) ==
    IF perfs = <<>> THEN 0 ELSE Head(perfs).score + sumScores(Tail(perfs))

Digit(d) == ToString(d)

\* Binary long division of r/n (0 <= r < n) from the bit after the last one
\* produced: how the IEEE double nearest to the quotient lies to the quotient
\* itself once 53 significant bits are out: -1 below, 0 equal, 1 above
\* (round to nearest, ties to even). sigBits counts from the leading 1 bit.
RECURSIVE doubleRounding(_, _, _, _)
doubleRounding(r, n, sigBits, lastBit) ==
    IF r = 0 THEN 0
    ELSE IF sigBits = 53
    THEN IF 2 * r > n THEN 1
         ELSE IF 2 * r < n THEN -1
         ELSE IF lastBit = 1 THEN 1 ELSE -1
    ELSE LET bit == IF 2 * r >= n THEN 1 ELSE 0
         IN doubleRounding(2 * r - bit * n, n,
                           IF sigBits > 0 \/ bit = 1 THEN sigBits + 1 ELSE 0, bit)

RECURSIVE bitLength(_)
bitLength(i) == IF i = 0 THEN 0 ELSE 1 + bitLength(i \div 2)

\* sum / n as a double, compared with the exact quotient
divisionRounding(sum, n) ==
    doubleRounding(sum % n, n, bitLength(sum \div n), (sum \div n) % 2)

\* (sum / n).toFixed(2) for sum >= 0, n > 0: the multiple of 0.01 nearest to the
\* double sum / n, the larger one when the double is exactly half way, printed
\* with two decimals. The double is within 2^-53 (relative) of the quotient, so
\* it rounds as the quotient does unless the quotient is exactly half way
\* between two multiples; there the side the double fell on decides.
toFixed2(sum, n) ==
    LET f == (100 * sum) \div n
        twiceRest == 2 * ((100 * sum) % n)
        h == IF twiceRest < n THEN f
             ELSE IF twiceRest > n THEN f + 1
             ELSE IF divisionRounding(sum, n) >= 0 THEN f + 1 ELSE f
    IN ToString(h \div 100) \o "." \o Digit((h % 100) \div 10) \o Digit(h % 10)

historySummaryOf(roundHistory, holeNumber) ==
    LET rel == relevantHistory(roundHistory, holeNumber) IN
    IF Len(rel) > 0
    THEN "Player has played this hole " \o ToString(Len(rel))
            \o " times with an average score of " \o toFixed2(sumScores(rel), Len(rel)) \o "."
    ELSE "No previous history on this hole."

\* Array.prototype.join(', ')
RECURSIVE join(_)
join(s) ==
    IF s = <<>> THEN ""
    ELSE IF Len(s) = 1 THEN s[1]
    ELSE s[1] \o ", " \o join(Tail(s))

\* currentHole.notes ? `...` : ""   (an array, even an empty one, is truthy)
holeNotesOf(currentHole) ==
    IF currentHole.hasNotes
    THEN "\n    - Your organic notes on this hole: " \o join(currentHole.notes)
    ELSE ""

\* playerProfile.tendencies.length > 0 ? `...` : ""
playerTendenciesOf(playerProfile) ==
    IF Len(playerProfile.tendencies) > 0
    THEN "\n    - General Player Tendencies: " \o join(playerProfile.tendencies)
    ELSE ""

\* course.roundHistory.map(...) on an object without roundHistory is a TypeError
buildSystemPromptThrows(course, currentHole, round, playerProfile) ==
    ~course.hasRoundHistory

\* The "Current Context" block of the prompt and the parts it is made of
buildSystemPrompt(course, currentHole, round, playerProfile) ==
    IF buildSystemPromptThrows(course, currentHole, round, playerProfile)
    THEN [built |-> TRUE, threw |-> TRUE, historySummary |-> "", holeNotes |-> "",
          playerTendencies |-> "", context |-> ""]
    ELSE LET historySummary == historySummaryOf(course.roundHistory, currentHole.holeNumber)
             holeNotes == holeNotesOf(currentHole)
             playerTendencies == playerTendenciesOf(playerProfile)
         IN [built |-> TRUE, threw |-> FALSE,
             historySummary |-> historySummary,
             holeNotes |-> holeNotes,
             playerTendencies |-> playerTendencies,
             context |->
                "\n    - Course: " \o course.name
                \o "\n    - Currently on: Hole #" \o ToString(currentHole.holeNumber)
                \o " (Par " \o ToString(currentHole.par) \o ", "
                \o ToString(currentHole.yardage) \o " yds)"
                \o "\n    - Historical Performance on this hole: "
                \o historySummary \o holeNotes
                \o "\n    - Weather: " \o round.conditions \o playerTendencies]

NoPromptOut ==
    [built |-> FALSE, threw |-> FALSE, historySummary |-> "", holeNotes |-> "",
     playerTendencies |-> "", context |-> ""]

PromptArgs(course, currentHole, round, playerProfile) ==
    [course |-> course, currentHole |-> currentHole, round |-> round,
     playerProfile |-> playerProfile]

NoPromptIn ==
    PromptArgs(MkCourse(TRUE, <<>>), MkHole(1, FALSE, <<>>), MkRound(TRUE, <<>>),
               MkProfile(<<>>))

PromptNoteLists == {<<>>, <<"n1">>, <<"n1", "n2">>}
PromptTendencyLists == {<<>>, <<"t1">>, <<"t1", "t2">>}

PromptHoles ==
    {MkHole(1, FALSE, <<>>)} \cup {MkHole(1, TRUE, ns) : ns \in PromptNoteLists}

PromptInputs ==
    {PromptArgs(MkCourse(TRUE, MkHistory(hbhs)), hole, MkRound(TRUE, <<>>), MkProfile(ts)) :
        hbhs \in SeqsUpTo(SeqsUpTo(Perfs, MaxPerf), MaxRounds),
        hole \in PromptHoles,
        ts \in PromptTendencyLists}
-----------------------------------------------------------------------------
(* Placeholders for idle parts of the state *)
NoCall     == NoPromptIn
NoRequest  == [issued |-> FALSE, contents |-> <<>>, systemInstruction |-> NoPromptOut]
NoResponse == [kind |-> "none", hasText |-> FALSE, text |-> ""]

-----------------------------------------------------------------------------------------------------------------------------------------------------
(* getJpConversationalResponse *)

\* A JavaScript value as the caller can observe it. A field that is missing is
\* "<absent>", a field holding a number is "<number>", an extractedData that
\* holds a string is "<string>".
JSObject(cr, ed, cue) ==
    [type |-> "object", conversationalResponse |-> cr, extractedData |-> ed, audioCue |-> cue]

JSOther(t) ==
    [type |-> t, conversationalResponse |-> "<absent>", extractedData |-> "<absent>",
     audioCue |-> "<absent>"]

OfflineReply ==
    JSObject("JP is currently offline. The AI Caddie is not configured correctly. Please ensure the API key is set in the environment variables.",
             "null", "none")

FallbackReply ==
    JSObject("There was an issue contacting JP. I'm having trouble thinking right now.",
             "null", "none")

\* process.env.API_KEY at module load: unset, empty or set
ApiKeys == {"undefined", "", "key-123"}

\* if (API_KEY) ai = new GoogleGenAI(...); else ai stays null
createAiIgnoresEmptiness(key) == IF key # "undefined" THEN "client" ELSE "null"

createAi(key) == IF key # "undefined" /\ key # "" THEN "client" ELSE "null"

\* msg.sender === 'jp' ? 'model' : 'user'
turnRole(sender) == IF sender = "jp" THEN "model" ELSE "user"

\* A variant that sends a sliding window: the latest message only
toContentsLatestOnly(conversation) ==
    LET n == Len(conversation) IN
    [i \in 1..(IF n > 0 THEN 1 ELSE 0) |->
        [role |-> turnRole(conversation[n].sender), text |-> conversation[n].text]]

\* round.conversation.map(msg => ({role: ..., parts: [{text: msg.text}]}))
toContents(conversation) ==
    [i \in 1..Len(conversation) |->
        [role |-> turnRole(conversation[i].sender), text |-> conversation[i].text]]

Senders  == {"jp", "user"}
MsgTexts == {"hi", "ok"}
Messages == {[sender |-> s, text |-> t] : s \in Senders, t \in MsgTexts}

\* Reply texts the backend may hand back in response.text
TextOk       == "{\"conversationalResponse\":\"Nice shot.\",\"extractedData\":null,\"audioCue\":\"none\"}"
TextPadded   == "  {\"conversationalResponse\":\"Nice shot.\",\"extractedData\":null,\"audioCue\":\"none\"}\n"
TextExtract  == "{\"conversationalResponse\":\"Sand again.\",\"extractedData\":{\"club\":\"7-Iron\",\"outcome\":\"Bunker\"},\"audioCue\":\"log\"}"
TextNoReply  == "{\"extractedData\":null,\"audioCue\":\"none\"}"
TextNumReply == "{\"conversationalResponse\":42,\"extractedData\":null,\"audioCue\":\"none\"}"
TextBadCue   == "{\"conversationalResponse\":\"Nice shot.\",\"extractedData\":null,\"audioCue\":\"fanfare\"}"
TextBadData  == "{\"conversationalResponse\":\"Nice shot.\",\"extractedData\":\"7-Iron\",\"audioCue\":\"none\"}"
TextNumCue   == "{\"conversationalResponse\":\"Nice shot.\",\"extractedData\":null,\"audioCue\":3}"
TextNull     == "null"
TextNumber   == "42"
TextProse    == "I would hit a smooth 6 here."
TextEmpty    == ""

BackendTexts ==
    {TextOk, TextPadded, TextExtract, TextNoReply, TextNumReply, TextBadCue,
     TextBadData, TextNumCue, TextNull, TextNumber, TextProse, TextEmpty}

\* String.prototype.trim on the reply texts above
trim(text) == IF text = TextPadded THEN TextOk ELSE text

\* JSON.parse on the (trimmed) reply texts above: the value, or a SyntaxError
JSONparse(text) ==
    CASE text = TextOk       -> [ok |-> TRUE, value |-> JSObject("Nice shot.", "null", "none")]
      [] text = TextExtract  -> [ok |-> TRUE, value |->
                                    JSObject("Sand again.", "{club:7-Iron,outcome:Bunker}", "log")]
      [] text = TextNoReply  -> [ok |-> TRUE, value |-> JSObject("<absent>", "null", "none")]
      [] text = TextNumReply -> [ok |-> TRUE, value |-> JSObject("<number>", "null", "none")]
      [] text = TextBadCue   -> [ok |-> TRUE, value |-> JSObject("Nice shot.", "null", "fanfare")]
      [] text = TextBadData  -> [ok |-> TRUE, value |-> JSObject("Nice shot.", "<string>", "none")]
      [] text = TextNumCue   -> [ok |-> TRUE, value |-> JSObject("Nice shot.", "null", "<number>")]
      [] text = TextNull     -> [ok |-> TRUE, value |-> JSOther("null")]
      [] text = TextNumber   -> [ok |-> TRUE, value |-> JSOther("number")]
      [] OTHER               -> [ok |-> FALSE, value |-> JSOther("SyntaxError")]

\* How the backend settles a request: the promise rejects, or resolves with a
\* response whose text is a string or undefined
BackendOutcomes ==
    {[kind |-> "rejects", hasText |-> FALSE, text |-> ""],
     [kind |-> "resolves", hasText |-> FALSE, text |-> ""]}
    \cup {[kind |-> "resolves", hasText |-> TRUE, text |-> t] : t \in BackendTexts}

\* The options the description of audioCue lists (prose for the backend, not
\* an enum of the schema)
AudioCues == {"discovery", "update", "memory", "achievement", "log", "none"}

\* A value conforms to responseSchema: an OBJECT whose properties, where
\* present, have the declared types. The schema has no "required" list and no
\* "enum": conversationalResponse is a STRING, extractedData a nullable OBJECT,
\* audioCue a nullable STRING.
responseSchema(v) ==
    /\ v.type = "object"
    /\ v.conversationalResponse # "<number>"
    /\ v.extractedData # "<string>"
    /\ v.audioCue # "<number>"

Resolved(v) == [kind |-> "resolved", value |-> v]
Rejected(e) == [kind |-> "rejected", value |-> JSOther(e)]
NoResult    == [kind |-> "none", value |-> JSOther("undefined")]

\* The code before the try block: what the call does up to its first await
beforeAwait(aiv, course, currentHole, round, playerProfile) ==
    IF aiv = "null"
    THEN [step |-> "return", result |-> Resolved(OfflineReply), request |-> NoRequest]
    ELSE IF buildSystemPromptThrows(course, currentHole, round, playerProfile)
            \/ ~round.hasConversation
    THEN [step |-> "throw", result |-> Rejected("TypeError"), request |-> NoRequest]
    ELSE [step |-> "await", result |-> NoResult,
          request |-> [issued |-> TRUE,
                       contents |-> toContents(round.conversation),
                       systemInstruction |->
                            buildSystemPrompt(course, currentHole, round, playerProfile)]]

\* The try block after the await, and its catch
afterAwait(outcome) ==
    IF outcome.kind = "rejects" THEN Resolved(FallbackReply)
    ELSE IF ~outcome.hasText THEN Resolved(FallbackReply)
    ELSE LET parsed == JSONparse(trim(outcome.text))
         IN IF parsed.ok THEN Resolved(parsed.value) ELSE Resolved(FallbackReply)

\* A caller invokes getJpConversationalResponse; it runs to its first await or end
Invoke(course, currentHole, round, playerProfile) ==
    LET b == beforeAwait(ai, course, currentHole, round, playerProfile) IN
    /\ pc \in {"idle", "done"}
    /\ b.step = "await" => requests < MaxCalls
    /\ call' = PromptArgs(course, currentHole, round, playerProfile)
    /\ sent' = b.request
    /\ requests' = IF b.step = "await" THEN requests + 1 ELSE requests
    /\ response' = NoResponse
    /\ result' = b.result
    /\ pc' = IF b.step = "await" THEN "awaiting" ELSE "done"
    /\ UNCHANGED <<API_KEY, ai, storeVars, promptVars>>

\* The backend settles the request and the call runs to its end
Settle(outcome) ==
    /\ pc = "awaiting"
    /\ response' = outcome
    /\ result' = afterAwait(outcome)
    /\ pc' = "done"
    /\ UNCHANGED <<API_KEY, ai, call, sent, requests, storeVars, promptVars>>

\* The (course, currentHole, playerProfile) a caller passes along with the round
BridgeContexts ==
    {<<MkCourse(FALSE, <<>>), MkHole(1, FALSE, <<>>), MkProfile(<<>>)>>,
     <<MkCourse(TRUE, <<>>), MkHole(1, FALSE, <<>>), MkProfile(<<>>)>>,
     <<MkCourse(TRUE, MkHistory(<< <<Perf(1, 5)>> >>)), MkHole(1, TRUE, <<"n1">>),
       MkProfile(<<"t1">>)>>}

BridgeRounds ==
    {MkRound(FALSE, <<>>)} \cup {MkRound(TRUE, c) : c \in SeqsUpTo(Messages, MaxConv)}
-----------------------------------------------------------------------------
(* Specification of the store *)

InitStore ==
    /\ localStorage \in {NoItem, CorruptItem} \cup {DocItem(d) : d \in StartDocs}
    /\ storedValue = loadStoredValue(localStorage)
    /\ heldValues = {}
    /\ renders = 0
    /\ reactState = storedValue
    /\ lastSetItem = "none"
    /\ writeFailures = 0
    /\ promptIn = NoPromptIn
    /\ promptOut = NoPromptOut
    /\ API_KEY = "undefined"
    /\ ai = "null"
    /\ pc = "idle"
    /\ call = NoCall
    /\ sent = NoRequest
    /\ response = NoResponse
    /\ requests = 0
    /\ result = NoResult

NextStore ==
    \/ \E closure \in Closures, course \in NewCourses, ok \in BOOLEAN :
            addCourse(closure, course, ok)
    \/ \E closure \in Closures, c \in CourseIds, r \in StoreRounds, ok \in BOOLEAN :
            saveRound(closure, c, r, ok)
    \/ \E closure \in Closures, c \in CourseIds, h \in HoleNumbers, n \in NoteTexts,
          ok \in BOOLEAN :
            addCourseNote(closure, c, h, n, ok)
    \/ \E closure \in Closures, t \in Tendencies, ok \in BOOLEAN :
            addPlayerTendency(closure, t, ok)
    \/ \E kept \in SUBSET (heldValues \cup {storedValue}) : Render(kept)

SpecStore == InitStore /\ [][NextStore]_vars

-----------------------------------------------------------------------------
(* Specification of buildSystemPrompt as a pure function *)

InitPrompt ==
    /\ promptIn \in PromptInputs
    /\ promptOut = NoPromptOut
    /\ localStorage = NoItem
    /\ storedValue = initialValue
    /\ heldValues = {}
    /\ renders = 0
    /\ reactState = initialValue
    /\ lastSetItem = "none"
    /\ writeFailures = 0
    /\ API_KEY = "undefined"
    /\ ai = "null"
    /\ pc = "idle"
    /\ call = NoCall
    /\ sent = NoRequest
    /\ response = NoResponse
    /\ requests = 0
    /\ result = NoResult

BuildPrompt ==
    /\ ~promptOut.built
    /\ promptOut' = buildSystemPrompt(promptIn.course, promptIn.currentHole,
                                      promptIn.round, promptIn.playerProfile)
    /\ UNCHANGED <<promptIn, storeVars, bridgeVars>>

NextPrompt == BuildPrompt

SpecPrompt == InitPrompt /\ [][NextPrompt]_vars
-----------------------------------------------------------------------------
(* Specification of the conversation bridge *)

InitBridge ==
    /\ API_KEY \in ApiKeys
    /\ ai = createAi(API_KEY)
    /\ pc = "idle"
    /\ call = NoCall
    /\ sent = NoRequest
    /\ response = NoResponse
    /\ requests = 0
    /\ result = NoResult
    /\ promptIn = NoPromptIn
    /\ promptOut = NoPromptOut
    /\ localStorage = NoItem
    /\ storedValue = initialValue
    /\ heldValues = {}
    /\ renders = 0
    /\ reactState = initialValue
    /\ lastSetItem = "none"
    /\ writeFailures = 0

NextBridge ==
    \/ \E ctx \in BridgeContexts, round \in BridgeRounds :
            Invoke(ctx[1], ctx[2], round, ctx[3])
    \/ \E outcome \in BackendOutcomes : Settle(outcome)

SpecBridge == InitBridge /\ [][NextBridge]_vars

-----------------------------------------------------------------------------
(* Properties *)

\* ---- helpers of the properties --------------------------------------------

NoDuplicates(s) == \A i, j \in 1..Len(s) : s[i] = s[j] => i = j

TendenciesOf(data) ==
    IF data.playerProfile.present THEN data.playerProfile.tendencies ELSE <<>>

EntriesWithDate(history, d) == {i \in 1..Len(history) : history[i].date = d}

DatesOf(history) == {history[i].date : i \in 1..Len(history)}

\* The history `new` is the history `old` after an upsert of `round`
IsUpsertOf(new, old, round) ==
    /\ \A d \in DatesOf(old) \cup {round.date} : Cardinality(EntriesWithDate(new, d)) = 1
    /\ \A i \in 1..Len(new) :
          IF new[i].date = round.date THEN new[i] = round
          ELSE \E k \in 1..Len(old) : old[k] = new[i]

\* Every note of every hole of `old` is in `new` at the same place, and every
\* tendency of `old` is a tendency of `new`
NothingLost(old, new) ==
    /\ \A i \in 1..Len(TendenciesOf(old)) : Includes(TendenciesOf(new), TendenciesOf(old)[i])
    /\ \A i \in 1..Len(old.courses) :
          \A j \in 1..Len(old.courses[i].holes) :
             \A k \in 1..Len(old.courses[i].holes[j].notes) :
                /\ i <= Len(new.courses)
                /\ j <= Len(new.courses[i].holes)
                /\ k <= Len(new.courses[i].holes[j].notes)
                /\ new.courses[i].holes[j].notes[k] = old.courses[i].holes[j].notes[k]

\* The same courses, by id and place, in both documents
SameCourses(a, b) ==
    /\ Len(a.courses) = Len(b.courses)
    /\ \A i \in 1..Len(a.courses) : a.courses[i].id = b.courses[i].id

\* Every HolePerformance of every round whose holeNumber matches
RECURSIVE allMatches(_, _)
allMatches(roundHistory, holeNumber) ==
    IF roundHistory = <<>> THEN <<>>
    ELSE SelectSeq(Head(roundHistory).holeByHole, LAMBDA h : h.holeNumber = holeNumber)
            \o allMatches(Tail(roundHistory), holeNumber)

\* sum/n rounded to hundredths (half up), as the text "i.dd"
RoundedMean(sum, n) ==
    LET h == CHOOSE x \in 0..(100 * sum) :
                /\ 2 * (100 * sum - x * n) < n
                /\ 2 * (x * n - 100 * sum) <= n
    IN ToString(h \div 100) \o "." \o ToString((h % 100) \div 10) \o ToString(h % 10)

referenceSummary(roundHistory, holeNumber) ==
    LET m == allMatches(roundHistory, holeNumber) IN
    IF Len(m) = 0 THEN "No previous history on this hole."
    ELSE "Player has played this hole " \o ToString(Len(m))
            \o " times with an average score of " \o RoundedMean(sumScores(m), Len(m)) \o "."

RolesAlternate(contents) ==
    \A i \in 1..(Len(contents) - 1) : contents[i].role # contents[i + 1].role

\* One turn per message, in order, text unchanged, 'jp' tagged model, others user
MirrorsTranscript(contents, conversation) ==
    /\ Len(contents) = Len(conversation)
    /\ \A i \in 1..Len(conversation) :
          /\ contents[i].text = conversation[i].text
          /\ contents[i].role = (IF conversation[i].sender = "jp" THEN "model" ELSE "user")

SendersAlternate(conversation) ==
    \A i \in 1..(Len(conversation) - 1) :
        (conversation[i].sender = "jp") # (conversation[i + 1].sender = "jp")

\* ---- C1 --------------------------------------------------------------------
\* C1: every invocation of getJpConversationalResponse completes by returning a
\* reply object; none ends in a rejected promise, whatever the arguments and the
\* backend's outcome.
C1_AlwaysReturnsReplyObject ==
    pc = "done" => (result.kind = "resolved" /\ result.value.type = "object")

\* ---- C2 --------------------------------------------------------------------
\* The shape the statement requires of a reply: an object with a textual
\* conversationalResponse, an extractedData that is an object when present, and
\* an audioCue that, when present, is one of the six cues.
ExtractionSchemaShape(v) ==
    /\ v.type = "object"
    /\ v.conversationalResponse \notin {"<absent>", "<number>"}
    /\ v.extractedData # "<string>"
    /\ v.audioCue \in AudioCues \cup {"<absent>", "null"}

\* C2: when the backend's reply text is not JSON, or is JSON that violates the
\* Extraction Schema shape, the call returns the fallback reply.
C2_NonConformingReplyFallsBack ==
    (/\ pc = "done"
     /\ response.kind = "resolves"
     /\ \/ ~response.hasText
        \/ ~JSONparse(trim(response.text)).ok
        \/ ~ExtractionSchemaShape(JSONparse(trim(response.text)).value))
    => result = Resolved(FallbackReply)

\* ---- C3 --------------------------------------------------------------------
\* C3: with no API credential at startup, every call returns the fixed offline
\* reply (extractedData null, audioCue 'none') and no backend request is issued.
C3_OfflineWithoutCredential ==
    API_KEY \in {"undefined", ""} =>
        /\ requests = 0
        /\ ~sent.issued
        /\ pc # "awaiting"
        /\ pc = "done" => result = Resolved(OfflineReply)

\* A call with a non-empty transcript has completed with no credential configured
C3_Witness ==
    /\ API_KEY \in {"undefined", ""}
    /\ pc = "done"
    /\ call.round.hasConversation
    /\ Len(call.round.conversation) > 0
    /\ result = Resolved(OfflineReply)
    /\ result.value.extractedData = "null"
    /\ result.value.audioCue = "none"

\* ---- C4 --------------------------------------------------------------------
\* C4: every saveRound call on a course the provider holds leaves that course's
\* history with exactly one entry for the saved date, equal to the saved round,
\* and exactly one entry, unchanged, for every other date it held before the call.
C4_SaveRoundUpserts ==
    [][\A closure \in Closures, c \in CourseIds, r \in StoreRounds, ok \in BOOLEAN :
          (saveRound(closure, c, r, ok) /\ SameCourses(closure, reactState)) =>
             /\ SameCourses(reactState, reactState')
             /\ \A i \in 1..Len(reactState.courses) :
                   reactState.courses[i].id = c =>
                      IsUpsertOf(reactState'.courses[i].roundHistory,
                                 reactState.courses[i].roundHistory, r)]_vars

\* ---- C5 --------------------------------------------------------------------
\* C5: the tendency list never holds a text twice; adding a text already present
\* leaves the list unchanged and adding a new text appends it at the end.
C5_TendenciesSetLike ==
    [][\A closure \in Closures, t \in Tendencies, ok \in BOOLEAN :
          addPlayerTendency(closure, t, ok) =>
             /\ NoDuplicates(TendenciesOf(reactState'))
             /\ TendenciesOf(reactState') =
                   IF Includes(TendenciesOf(reactState), t)
                   THEN TendenciesOf(reactState)
                   ELSE Append(TendenciesOf(reactState), t)]_vars

\* ---- C6 --------------------------------------------------------------------
\* C6: hole notes and player tendencies only grow: whatever note or tendency the
\* data holds before a step, it still holds after it.
C6_NotesAndTendenciesOnlyGrow ==
    [][NothingLost(reactState, reactState')]_vars

\* ---- C7 --------------------------------------------------------------------
\* C7: the history summary of buildSystemPrompt is the reference aggregation over
\* every HolePerformance of every round whose holeNumber matches: the sentinel for
\* zero matches, else the count and the mean rounded to two decimals.
C7_SummaryIsReferenceAggregation ==
    promptOut.built =>
        promptOut.historySummary =
            referenceSummary(promptIn.course.roundHistory, promptIn.currentHole.holeNumber)

\* ---- C8 --------------------------------------------------------------------
\* C8: the hole-notes line is present iff the hole has at least one note, and the
\* tendencies line is present iff the profile has at least one tendency.
C8_LinesPresentIffNonEmpty ==
    promptOut.built =>
        /\ (promptOut.holeNotes # "") <=>
              (promptIn.currentHole.hasNotes /\ Len(promptIn.currentHole.notes) > 0)
        /\ (promptOut.playerTendencies # "") <=>
              (Len(promptIn.playerProfile.tendencies) > 0)

\* ---- C9 --------------------------------------------------------------------
\* C9: when the write to the store fails during a mutation, the in-memory data
\* afterwards is the data from before that mutation.
C9_FailedWriteKeepsPriorState ==
    [][writeFailures' # writeFailures => reactState' = reactState]_vars

\* ---- C10 -------------------------------------------------------------------
\* C10 as stated: the turns sent mirror the transcript one to one (order, text,
\* role tags) and alternate between the two roles.
C10_TurnsMirrorAndAlternate ==
    sent.issued =>
        /\ MirrorsTranscript(sent.contents, call.round.conversation)
        /\ RolesAlternate(sent.contents)

\* C10, amended: the turns sent mirror the transcript one to one (order, text,
\* role tags), and they alternate exactly when the transcript's senders do.
C10_TurnsMirrorTranscript ==
    sent.issued =>
        /\ MirrorsTranscript(sent.contents, call.round.conversation)
        /\ RolesAlternate(sent.contents) <=> SendersAlternate(call.round.conversation)

\* A request was issued for a transcript of two different player messages in a row
C10_Witness ==
    /\ sent.issued
    /\ Len(call.round.conversation) = 2
    /\ call.round.conversation[1].sender = "user"
    /\ call.round.conversation[2].sender = "user"
    /\ call.round.conversation[1].text # call.round.conversation[2].text
    /\ Len(sent.contents) = 2

-----------------------------------------------------------------------------
(* How far the refuted statements do hold *)

\* C1, C2: with well-formed arguments no call ends in a rejected promise, and a
\* reply text that is not JSON (or a missing text) yields the fallback reply
Bridge_WellFormedCallResolves ==
    (pc = "done" /\ call.course.hasRoundHistory /\ call.round.hasConversation)
        => result.kind = "resolved"

Bridge_NonJsonFallsBack ==
    (/\ pc = "done"
     /\ response.kind = "resolves"
     /\ (~response.hasText \/ ~JSONparse(trim(response.text)).ok))
    => result = Resolved(FallbackReply)

\* C1, C2: a parsed reply is handed to the caller as it is, so the caller gets
\* a reply object when the backend honours responseSchema, and a reply of the
\* shape the statement requires only when the backend produced that shape
Bridge_ParsedReplyReturnedAsIs ==
    (/\ pc = "done"
     /\ response.kind = "resolves"
     /\ response.hasText
     /\ JSONparse(trim(response.text)).ok)
    => result = Resolved(JSONparse(trim(response.text)).value)

Bridge_SchemaHonouredGivesObject ==
    (/\ pc = "done"
     /\ response.kind = "resolves"
     /\ response.hasText
     /\ JSONparse(trim(response.text)).ok
     /\ responseSchema(JSONparse(trim(response.text)).value))
    => (result.kind = "resolved" /\ result.value.type = "object")

\* The statement's shape is stricter than responseSchema: every value of that
\* shape conforms, and some conforming values are not of that shape
Bridge_ShapeStricterThanSchema ==
    /\ \A t \in BackendTexts :
          (JSONparse(trim(t)).ok /\ ExtractionSchemaShape(JSONparse(trim(t)).value))
              => responseSchema(JSONparse(trim(t)).value)
    /\ responseSchema(JSONparse(TextNoReply).value)
    /\ ~ExtractionSchemaShape(JSONparse(TextNoReply).value)
    /\ responseSchema(JSONparse(TextBadCue).value)
    /\ ~ExtractionSchemaShape(JSONparse(TextBadCue).value)

\* C4, C5, C6: each mutation is correct relative to the storedValue its handler
\* closed over, so the statements hold for a call made through a handler whose
\* storedValue is the current data (the latest render's, no update pending)
Store_SaveRoundUpsertsClosure ==
    [][\A closure \in Closures, c \in CourseIds, r \in StoreRounds, ok \in BOOLEAN :
          saveRound(closure, c, r, ok) =>
             /\ SameCourses(closure, reactState')
             /\ \A i \in 1..Len(closure.courses) :
                   closure.courses[i].id = c =>
                      IsUpsertOf(reactState'.courses[i].roundHistory,
                                 closure.courses[i].roundHistory, r)]_vars

Store_TendenciesSetLikeClosure ==
    [][\A closure \in Closures, t \in Tendencies, ok \in BOOLEAN :
          addPlayerTendency(closure, t, ok) =>
             TendenciesOf(reactState') =
                IF Includes(TendenciesOf(closure), t)
                THEN TendenciesOf(closure)
                ELSE Append(TendenciesOf(closure), t)]_vars

Store_NoDuplicateTendencies == NoDuplicates(TendenciesOf(reactState))

Store_OneRoundPerDate ==
    \A i \in 1..Len(reactState.courses) :
        \A k \in 1..Len(reactState.courses[i].roundHistory) :
            Cardinality(EntriesWithDate(reactState.courses[i].roundHistory,
                                        reactState.courses[i].roundHistory[k].date)) = 1

MutationThrough(closure) ==
    \/ \E course \in NewCourses, ok \in BOOLEAN : addCourse(closure, course, ok)
    \/ \E c \in CourseIds, r \in StoreRounds, ok \in BOOLEAN : saveRound(closure, c, r, ok)
    \/ \E c \in CourseIds, h \in HoleNumbers, n \in NoteTexts, ok \in BOOLEAN :
            addCourseNote(closure, c, h, n, ok)
    \/ \E t \in Tendencies, ok \in BOOLEAN : addPlayerTendency(closure, t, ok)

Store_NothingLostCurrentClosure ==
    [][\A closure \in Closures :
          (closure = reactState /\ MutationThrough(closure))
             => NothingLost(reactState, reactState')]_vars

\* C9: a successful write leaves the store holding the in-memory data
Store_WrittenDocIsMemory ==
    lastSetItem = "ok" => localStorage = DocItem(reactState)

\* C7: with at most one entry per hole in each round the summary is the
\* reference aggregation
Prompt_SummaryIsReferenceWhenOnePerRound ==
    (/\ promptOut.built
     /\ \A i \in 1..Len(promptIn.course.roundHistory) :
           Len(allMatches(<<promptIn.course.roundHistory[i]>>,
                          promptIn.currentHole.holeNumber)) <= 1)
    => promptOut.historySummary =
          referenceSummary(promptIn.course.roundHistory, promptIn.currentHole.holeNumber)

\* C7: toFixed(2) rounds the double, not the quotient. Up to 39 matching
\* entries the two agree (checked for every sum up to 500); from 40 entries on
\* a mean that is exactly half way between two hundredths can come out one
\* hundredth lower than the mean rounded half up
Prompt_ToFixedAgreesBelowForty ==
    \A n \in 1..39 : \A sum \in 0..500 : toFixed2(sum, n) = RoundedMean(sum, n)

Prompt_ToFixedRoundsTheDouble ==
    /\ toFixed2(9, 8) = "1.13"    /\ RoundedMean(9, 8) = "1.13"
    /\ toFixed2(41, 40) = "1.02"  /\ RoundedMean(41, 40) = "1.03"
    /\ toFixed2(43, 40) = "1.07"  /\ RoundedMean(43, 40) = "1.08"
    /\ toFixed2(51, 40) = "1.27"  /\ RoundedMean(51, 40) = "1.28"
    /\ toFixed2(201, 200) = "1.00" /\ RoundedMean(201, 200) = "1.01"

\* C8: the two lines are as stated unless the notes list is an empty array
Prompt_LinesIffNonEmptyUnlessEmptyArray ==
    (/\ promptOut.built
     /\ ~(promptIn.currentHole.hasNotes /\ promptIn.currentHole.notes = <<>>))
    => C8_LinesPresentIffNonEmpty
====
